---- MODULE Spec2Model ----
(***************************************************************************)
(* A model of cronos-evm-client: the client factory (createClient), the    *)
(* five crc20 and three crc721 operations, the transport they post to and  *)
(* the decoders they apply to the node's result.                           *)
(*                                                                         *)
(* Representation.  A JavaScript value the code looks inside (the result   *)
(* of an envelope, a decoded value) is a record [t, s]: t is its type and  *)
(* s, for a string, its characters as a sequence of one-character strings. *)
(* A string the code only copies or concatenates (a node message, an       *)
(* endpoint, an API key, a log tag) is a TLA+ string.                      *)
(***************************************************************************)
EXTENDS Integers, Sequences, FiniteSets, TLC

VARIABLES config, instance, calls

vars == <<config, instance, calls>>

(***************************************************************************)
(* Bounds of the model.                                                    *)
(***************************************************************************)
\* Every hexadecimal result of up to MaxHexLen digits over HexAlphabet is an input.
MaxHexLen == 2

(***************************************************************************)
(* JavaScript values.                                                      *)
(***************************************************************************)
Undefined == [t |-> "undefined", s |-> <<>>]

Str(chars) == [t |-> "string", s |-> chars]

IsString(v) == v.t = "string"

(***************************************************************************)
(* Characters and digits.                                                  *)
(***************************************************************************)
DecChars == <<"0", "1", "2", "3", "4", "5", "6", "7", "8", "9">>

HexLower == DecChars \o <<"a", "b", "c", "d", "e", "f">>

HexUpper == DecChars \o <<"A", "B", "C", "D", "E", "F">>

IsHexChar(c) == \E i \in 1..16 : HexLower[i] = c \/ HexUpper[i] = c

HexVal(c) == (CHOOSE i \in 1..16 : HexLower[i] = c \/ HexUpper[i] = c) - 1

IsDecChar(c) == \E i \in 1..10 : DecChars[i] = c

DecVal(c) == (CHOOSE i \in 1..10 : DecChars[i] = c) - 1

\* The printable ASCII characters, code 32 first (code 96 is written <U+0060>).
Ascii ==
    << " ", "!", "\"", "#", "$", "%", "&", "'", "(", ")", "*", "+", ",", "-", ".", "/",
       "0", "1", "2", "3", "4", "5", "6", "7", "8", "9", ":", ";", "<", "=", ">", "?",
       "@", "A", "B", "C", "D", "E", "F", "G", "H", "I", "J", "K", "L", "M", "N", "O",
       "P", "Q", "R", "S", "T", "U", "V", "W", "X", "Y", "Z", "[", "\\", "]", "^", "_",
       "<U+0060>", "a", "b", "c", "d", "e", "f", "g", "h", "i", "j", "k", "l", "m", "n", "o",
       "p", "q", "r", "s", "t", "u", "v", "w", "x", "y", "z", "{", "|", "}", "~" >>

\* What a byte outside printable ASCII decodes to.
ReplacementChar == "<U+FFFD>"

ByteToChar(b) == IF b >= 32 /\ b <= 126 THEN Ascii[b - 31] ELSE ReplacementChar

(***************************************************************************)
(* Unbounded naturals (TLC's integers are 32 bits wide, the node's are     *)
(* 256): a sequence of limbs in some base, least significant first, zero   *)
(* the empty sequence.  A number is converted between bases four digits to *)
(* a limb and four limbs to a step, which keeps the recursion shallow on a *)
(* 96-byte payload.                                                        *)
(***************************************************************************)
RECURSIVE MulAdd(_, _, _, _)
\* ds * m + carry, in the given base.
MulAdd(ds, m, carry, base) ==
    IF ds = <<>>
    THEN IF carry = 0 THEN <<>>
         ELSE <<carry % base>> \o MulAdd(<<>>, m, carry \div base, base)
    ELSE IF Len(ds) < 4
    THEN LET v == Head(ds) * m + carry
         IN  <<v % base>> \o MulAdd(Tail(ds), m, v \div base, base)
    ELSE LET v1 == ds[1] * m + carry
             v2 == ds[2] * m + (v1 \div base)
             v3 == ds[3] * m + (v2 \div base)
             v4 == ds[4] * m + (v3 \div base)
         IN  <<v1 % base, v2 % base, v3 % base, v4 % base>>
                 \o MulAdd(SubSeq(ds, 5, Len(ds)), m, v4 \div base, base)

Pow4(b) == b * b * b * b

\* The digit of ds (most significant first) at position p from the right, from 0.
DigitFromRight(ds, p) == IF p < Len(ds) THEN ds[Len(ds) - p] ELSE 0

\* The digits ds (most significant first, base b) in groups of four: limbs of
\* base b^4, most significant first.
Limbs(ds, b) ==
    LET n == (Len(ds) + 3) \div 4
    IN  [i \in 1..n |->
            LET p == 4 * (n - i)
            IN  DigitFromRight(ds, p) + b * DigitFromRight(ds, p + 1)
                + b * b * DigitFromRight(ds, p + 2)
                + b * b * b * DigitFromRight(ds, p + 3)]

RECURSIVE ConvertLimbs(_, _, _)
\* The limbs ls (most significant first, base `from`) as a natural in base `to`.
\* Four limbs are taken in a step; the test on the lengths evaluates the
\* intermediate numbers in order, before the last one is built from them.
ConvertLimbs(ls, from, to) ==
    IF ls = <<>> THEN <<>>
    ELSE IF Len(ls) < 4
    THEN MulAdd(ConvertLimbs(SubSeq(ls, 1, Len(ls) - 1), from, to), from, ls[Len(ls)], to)
    ELSE LET n  == Len(ls)
             p  == ConvertLimbs(SubSeq(ls, 1, n - 4), from, to)
             a1 == MulAdd(p, from, ls[n - 3], to)
             a2 == MulAdd(a1, from, ls[n - 2], to)
             a3 == MulAdd(a2, from, ls[n - 1], to)
         IN  IF Len(p) + Len(a1) + Len(a2) + Len(a3) >= 0
             THEN MulAdd(a3, from, ls[n], to) ELSE <<>>

\* ds without the zeros at its end.
StripTrailingZeros(ds) ==
    LET nonzero == {i \in 1..Len(ds) : ds[i] # 0}
    IN  SubSeq(ds, 1, IF nonzero = {} THEN 0
                      ELSE CHOOSE i \in nonzero : \A j \in nonzero : j <= i)

\* The natural ls (limbs of base b^4, least significant first) as digits of base b,
\* least significant first.
Digits(ls, b) ==
    StripTrailingZeros(
        [j \in 1..(4 * Len(ls)) |->
            LET limb == ls[((j - 1) \div 4) + 1]
                k == (j - 1) % 4
            IN  (limb \div (IF k = 0 THEN 1 ELSE IF k = 1 THEN b
                            ELSE IF k = 2 THEN b * b ELSE b * b * b)) % b])

\* The digits ds, most significant first and in base `from`, as a natural in base
\* `to`: its digits, least significant first.
Convert(ds, from, to) == Digits(ConvertLimbs(Limbs(ds, from), Pow4(from), Pow4(to)), to)

Reverse(s) == [i \in 1..Len(s) |-> s[Len(s) + 1 - i]]

Zeros(n) == [i \in 1..n |-> 0]

(***************************************************************************)
(* The decoders (helpers/formatting).  Each returns [ok, value, error]:    *)
(* the string it decodes to, or the failure it throws.                     *)
(***************************************************************************)
NoError == [name |-> "", message |-> ""]

Returned(chars) == [ok |-> TRUE, value |-> Str(chars), error |-> NoError]

Thrown(e) == [ok |-> FALSE, value |-> Undefined, error |-> e]

DecodeError(fn) == [name |-> "DecodeError", message |-> fn \o ": malformed hex payload"]

\* The characters after a leading "0x".
StripPrefix(chars) ==
    IF Len(chars) >= 2 /\ chars[1] = "0" /\ chars[2] \in {"x", "X"}
    THEN SubSeq(chars, 3, Len(chars)) ELSE chars

IsHexPayload(chars) == \A i \in 1..Len(chars) : IsHexChar(chars[i])

HexDigits(chars) == [i \in 1..Len(chars) |-> HexVal(chars[i])]

DecString(ds) == [i \in 1..Len(ds) |-> DecChars[ds[i] + 1]]

\* The natural n (decimal digits, least significant first) divided by 10^decimals,
\* written in full: the integer part, then "." and the fraction when it is not zero.
ScaledString(n, decimals) ==
    LET padded == n \o Zeros(IF Len(n) > decimals THEN 0 ELSE decimals + 1 - Len(n))
        int    == Reverse(SubSeq(padded, decimals + 1, Len(padded)))
        frac   == StripTrailingZeros(Reverse(SubSeq(padded, 1, decimals)))
    IN  DecString(int) \o (IF frac = <<>> THEN <<>> ELSE <<".">> \o DecString(frac))

\* hex-to-scaled-decimal(hexString, decimals).
formatTokenAmount(v, decimals) ==
    IF ~IsString(v) \/ ~IsHexPayload(StripPrefix(v.s))
    THEN Thrown(DecodeError("formatTokenAmount"))
    ELSE Returned(ScaledString(Convert(HexDigits(StripPrefix(v.s)), 16, 10), decimals))

\* The number of decimals of the chain's main token (wei to ether).
EtherDecimals == 18

\* hex-wei to decimal-ether.
weiToEther(v) == formatTokenAmount(v, EtherDecimals)

Bytes(chars) ==
    [i \in 1..(Len(chars) \div 2) |-> 16 * HexVal(chars[2 * i - 1]) + HexVal(chars[2 * i])]

\* The bytes of one 32-byte word of an ABI encoding.
WordBytes == 32

\* The 32-byte word at byte offset `at` holds a number below 2^16: that number, else -1.
SmallWord(bytes, at) ==
    IF Len(bytes) >= at + WordBytes
       /\ \A i \in (at + 1)..(at + WordBytes - 2) : bytes[i] = 0
    THEN 256 * bytes[at + WordBytes - 1] + bytes[at + WordBytes]
    ELSE -1

\* The ABI dynamic-string layout: an offset word holding 32, a length word, the
\* text right-padded to a word boundary.
IsAbiString(bytes) ==
    /\ SmallWord(bytes, 0) = WordBytes
    /\ SmallWord(bytes, WordBytes) >= 0
    /\ Len(bytes) >= 2 * WordBytes + SmallWord(bytes, WordBytes)

\* bytes without the null padding at its end.
TrimNulls(bytes) == StripTrailingZeros(bytes)

Text(bytes) == [i \in 1..Len(bytes) |-> ByteToChar(bytes[i])]

\* decode-abi-hex-string(hexString).
decodeHexString(v) ==
    IF ~IsString(v) \/ ~IsHexPayload(StripPrefix(v.s)) \/ Len(StripPrefix(v.s)) % 2 = 1
    THEN Thrown(DecodeError("decodeHexString"))
    ELSE LET bytes == Bytes(StripPrefix(v.s))
             payload == IF IsAbiString(bytes)
                        THEN SubSeq(bytes, 2 * WordBytes + 1,
                                    2 * WordBytes + SmallWord(bytes, WordBytes))
                        ELSE bytes
         IN  Returned(Text(TrimNulls(payload)))

(***************************************************************************)
(* The inputs: client configurations, request payloads, the node's replies.*)
(***************************************************************************)
Endpoints == {"https://evm.cronos.org", "http://localhost:8545"}

\* apiKey?: string.  Not given, or a string (the empty one included).
ApiKeys == {[given |-> FALSE, key |-> ""], [given |-> TRUE, key |-> ""],
            [given |-> TRUE, key |-> "secret"]}

Configs == [endpoint : Endpoints, apiKey : ApiKeys]

Payloads == {[method |-> "eth_call", params |-> <<"0xContractAddress", "latest">>],
             [method |-> "eth_getBalance", params |-> <<"0xAccount", "latest">>]}

HexAlphabet == {"0", "1", "f"}

Hex(chars) == Str(<<"0", "x">> \o chars)

ShortHexResults == {Hex(ds) : ds \in UNION {[1..n -> HexAlphabet] : n \in 1..MaxHexLen}}

\* The round number 10^18 (one ether in wei).
OneEther == Hex(<<"0", "d", "e", "0", "b", "6", "b", "3", "a", "7", "6", "4", "0", "0", "0", "0">>)

\* 1000 * 10^18, beyond 64 bits.
ThousandEther ==
    Hex(<<"3", "6", "3", "5", "c", "9", "a", "d", "c", "5", "d", "e", "a", "0", "0", "0", "0", "0">>)

\* 10^6 and 1.5 * 10^6.
Million == Hex(<<"f", "4", "2", "4", "0">>)

MillionAndHalf == Hex(<<"1", "6", "e", "3", "6", "0">>)

\* "USDC" as plain hex text, and in the ABI dynamic-string layout.
PlainText == Hex(<<"5", "5", "5", "3", "4", "4", "4", "3">>)

AbiWord(lastByte) ==
    [i \in 1..(2 * WordBytes) |->
        IF i = 2 * WordBytes - 1 THEN HexLower[(lastByte \div 16) + 1]
        ELSE IF i = 2 * WordBytes THEN HexLower[(lastByte % 16) + 1] ELSE "0"]

AbiText ==
    Hex(AbiWord(32) \o AbiWord(4) \o <<"5", "5", "5", "3", "4", "4", "4", "3">>
        \o [i \in 1..(2 * WordBytes - 8) |-> "0"])

\* An owner address, an empty payload and a payload that is not hexadecimal.
Address == Hex(<<"a", "b", "c", "1", "2", "3">>)

EmptyHex == Hex(<<>>)

NotHex == Hex(<<"z", "z">>)

Results ==
    ShortHexResults
        \cup {OneEther, ThousandEther, Million, MillionAndHalf, PlainText, AbiText,
              Address, EmptyHex, NotHex, Undefined}

\* The error field of an envelope: absent, null, or an object with a message.
NoErrorField == [t |-> "undefined", message |-> ""]

NullErrorField == [t |-> "null", message |-> ""]

RpcError(m) == [t |-> "object", message |-> m]

NodeMessages == {"execution reverted", "invalid params"}

ErrorFields == {NoErrorField, NullErrorField} \cup {RpcError(m) : m \in NodeMessages}

Envelopes == [result : Results, error : ErrorFields]

TransportErrors == {[name |-> "AxiosError", message |-> "connect ECONNREFUSED"],
                    [name |-> "AxiosError", message |-> "timeout of 0ms exceeded"]}

\* What the transport settles a POST with: a response carrying an envelope, or a failure.
Replies ==
    {[kind |-> "response", data |-> e, error |-> NoError] : e \in Envelopes}
        \cup {[kind |-> "failure", data |-> [result |-> Undefined, error |-> NoErrorField],
               error |-> e] : e \in TransportErrors}

NoReply == [kind |-> "none", data |-> [result |-> Undefined, error |-> NoErrorField],
            error |-> NoError]

(***************************************************************************)
(* The client factory.                                                     *)
(***************************************************************************)
\* apiKey ? ... : ...   (undefined and "" are falsy)
Truthy(apiKey) == apiKey.given /\ apiKey.key # ""

\* A slip: the condition is inverted.
HeadersInverted(apiKey) ==
    IF Truthy(apiKey) THEN {} ELSE {<<"Authorization", "Bearer " \o apiKey.key>>}

\* The header set of the instance, as a set of <<name, value>>.
Headers(apiKey) ==
    IF Truthy(apiKey) THEN {<<"Authorization", "Bearer " \o apiKey.key>>} ELSE {}

\* axios.create({ baseURL, headers })
createClient(cfg) == [baseURL |-> cfg.endpoint, headers |-> Headers(cfg.apiKey)]

\* A slip: the payload is wrapped in a JSON-RPC frame and posted to "/".
PostWrapped(inst, path, data) ==
    [verb |-> "POST", baseURL |-> inst.baseURL, headers |-> inst.headers,
     path |-> "/", body |-> [method |-> "eth_call", params |-> <<data.method>> \o data.params]]

\* cronosInstance.post(path, data): the request the instance sends.
Post(inst, path, data) ==
    [verb |-> "POST", baseURL |-> inst.baseURL, headers |-> inst.headers,
     path |-> path, body |-> data]

(***************************************************************************)
(* The operations.  Each is its code's literals: the path it posts to, the *)
(* tag it logs at the error check, the prefix of the Error it throws       *)
(* there, the tag it logs at the catch boundary, and the decoder call it   *)
(* makes on response.data.result: the function's name and, for             *)
(* formatTokenAmount, the decimals passed; <<>> where it makes none.       *)
(***************************************************************************)
crc20_getBalance ==
    [path |-> "", logTag |-> "[crc20/getBalance] error:",
     throwPrefix |-> "[crc20/getBalance] error: ",
     catchTag |-> "[crc20/getBalance] error:", decoder |-> <<"weiToEther">>]

crc20_getBalanceOf ==
    [path |-> "", logTag |-> "[crc20/getBalanceOf] error:",
     throwPrefix |-> "[crc20/getBalanceOf] error: ",
     catchTag |-> "[crc20/getBalanceOf] error:", decoder |-> <<"weiToEther">>]

crc20_getName ==
    [path |-> "", logTag |-> "[crc20/getName] error:",
     throwPrefix |-> "[crc20/getName] error: ",
     catchTag |-> "[crc20/getName] error:", decoder |-> <<"decodeHexString">>]

crc20_getSymbol ==
    [path |-> "", logTag |-> "[crc20/getSymbol] error:",
     throwPrefix |-> "[crc20/getSymbol] error: ",
     catchTag |-> "[crc20/getSymbol] error:", decoder |-> <<"decodeHexString">>]

\* A slip: the total supply is scaled like a balance.
crc20_getTotalSupplyAsEther ==
    [path |-> "", logTag |-> "[crc20/getTotalSupply] error:",
     throwPrefix |-> "[crc20/getTotalSupply] error: ",
     catchTag |-> "[crc20/getTotalSupply] error:", decoder |-> <<"weiToEther">>]

crc20_getTotalSupply ==
    [path |-> "", logTag |-> "[crc20/getTotalSupply] error:",
     throwPrefix |-> "[crc20/getTotalSupply] error: ",
     catchTag |-> "[crc20/getTotalSupply] error:", decoder |-> <<"formatTokenAmount", 6>>]

\* A slip: the token count is scaled like a total supply.
crc721_getBalanceOfScaled ==
    [path |-> "", logTag |-> "[crc721/getBalanceOf] error:",
     throwPrefix |-> "[crc721/getBalanceOf] error: ",
     catchTag |-> "[crc721/getBalanceOf] error:", decoder |-> <<"formatTokenAmount", 6>>]

crc721_getBalanceOf ==
    [path |-> "", logTag |-> "[crc721/getBalanceOf] error:",
     throwPrefix |-> "[crc721/getBalanceOf] error: ",
     catchTag |-> "[crc721/getBalanceOf] error:", decoder |-> <<"formatTokenAmount", 0>>]

\* A slip: the owner is decoded like a name.
crc721_getOwnerOfDecoded ==
    [path |-> "", logTag |-> "[crc721/getOwnerOf] error:",
     throwPrefix |-> "[crc721/getOwnerOf] error: ",
     catchTag |-> "[crc721/getOwnerOf] error:", decoder |-> <<"decodeHexString">>]

crc721_getOwnerOf ==
    [path |-> "", logTag |-> "[crc721/getOwnerOf] error:",
     throwPrefix |-> "[crc721/getOwnerOf] error: ",
     catchTag |-> "[crc721/getOwnerOf] error:", decoder |-> <<>>]

crc721_getTokenUri ==
    [path |-> "", logTag |-> "[crc721/getBalanceOf] error:",
     throwPrefix |-> "[crc721/getBalanceOf] error: ",
     catchTag |-> "[crc721/getBalanceOf] error:", decoder |-> <<"decodeHexString">>]

\* The methods of the facade createClient returns: <<group, method>>.
Methods ==
    {<<"crc20", "getBalance">>, <<"crc20", "getBalanceOf">>, <<"crc20", "getName">>,
     <<"crc20", "getSymbol">>, <<"crc20", "getTotalSupply">>,
     <<"crc721", "getBalanceOf">>, <<"crc721", "getOwnerOf">>, <<"crc721", "getTokenUri">>}

\* The operation each facade method delegates to.
Facade(m) ==
    CASE m = <<"crc20", "getBalance">> -> crc20_getBalance
      [] m = <<"crc20", "getBalanceOf">> -> crc20_getBalanceOf
      [] m = <<"crc20", "getName">> -> crc20_getName
      [] m = <<"crc20", "getSymbol">> -> crc20_getSymbol
      [] m = <<"crc20", "getTotalSupply">> -> crc20_getTotalSupply
      [] m = <<"crc721", "getBalanceOf">> -> crc721_getBalanceOf
      [] m = <<"crc721", "getOwnerOf">> -> crc721_getOwnerOf
      [] m = <<"crc721", "getTokenUri">> -> crc721_getTokenUri

(***************************************************************************)
(* One call: the body of an operation, after its POST has settled.         *)
(***************************************************************************)
\* A slip: the error only counts when the envelope carries no result.
RpcFailedUnlessResult(data) == data.error.t = "object" /\ data.result.t = "undefined"

\* if (responseError): an object is truthy, undefined and null are not.
RpcFailed(data) == data.error.t = "object"

\* new Error(`<prefix>${responseError.message}`)
NewError(message) == [name |-> "Error", message |-> message]

\* The decoder call of an operation on response.data.result; no call is the
\* plain assignment `const result = response.data.result`.
Decode(decoder, v) ==
    IF Len(decoder) = 0 THEN [ok |-> TRUE, value |-> v, error |-> NoError]
    ELSE CASE decoder[1] = "weiToEther" -> weiToEther(v)
           [] decoder[1] = "formatTokenAmount" -> formatTokenAmount(v, decoder[2])
           [] decoder[1] = "decodeHexString" -> decodeHexString(v)

\* One logger.error(tag, arg): arg is a message (text) or a caught value (error).
LogText(tag, text) == [tag |-> tag, text |-> text, error |-> NoError]

LogCaught(tag, e) == [tag |-> tag, text |-> "", error |-> e]

\* The try block: the awaited POST rejects, or the envelope carries an error,
\* or the result is decoded and returned.
Try(op, reply) ==
    IF reply.kind = "failure"
    THEN [threw |-> TRUE, error |-> reply.error, value |-> Undefined,
          log |-> <<>>, decodes |-> <<>>]
    ELSE IF RpcFailed(reply.data)
    THEN [threw |-> TRUE, error |-> NewError(op.throwPrefix \o reply.data.error.message),
          value |-> Undefined,
          log |-> <<LogText(op.logTag, reply.data.error.message)>>, decodes |-> <<>>]
    ELSE LET d == Decode(op.decoder, reply.data.result)
         IN  [threw |-> ~d.ok, error |-> d.error, value |-> d.value, log |-> <<>>,
              decodes |-> IF Len(op.decoder) = 0 THEN <<>> ELSE <<op.decoder[1]>>]

\* A slip: the catch boundary rethrows without logging.
CatchWithoutLog(op, e) == [log |-> <<>>, error |-> e]

\* A slip: the catch boundary throws a new Error made from the caught one.
CatchAndWrap(op, e) ==
    [log |-> <<LogCaught(op.catchTag, e)>>,
     error |-> NewError(op.catchTag \o " " \o e.message)]

\* catch (e) { logger.error(tag, e); throw e; }
Catch(op, e) == [log |-> <<LogCaught(op.catchTag, e)>>, error |-> e]

Pending == [status |-> "pending", value |-> Undefined, error |-> NoError]

Resolved(v) == [status |-> "resolved", value |-> v, error |-> NoError]

Rejected(e) == [status |-> "rejected", value |-> Undefined, error |-> e]

\* The whole body after the await: what the promise settles with, what was
\* logged, which decoders ran.
Settle(op, reply) ==
    LET t == Try(op, reply)
    IN  IF t.threw
        THEN [outcome |-> Rejected(Catch(op, t.error).error),
              log |-> t.log \o Catch(op, t.error).log, decodes |-> t.decodes]
        ELSE [outcome |-> Resolved(t.value), log |-> t.log, decodes |-> t.decodes]

(***************************************************************************)
(* The state: the configuration the client was created from, the instance  *)
(* it captured, and the calls made on it.  A call is idle (not made, or    *)
(* its outcome taken by the caller), awaiting its POST, replied (the       *)
(* transport has settled the POST, the body has not resumed) or settled.   *)
(***************************************************************************)
NoMethod == <<"", "">>

NoPayload == [method |-> "", params |-> <<>>]

IdleCall ==
    [pc |-> "idle", method |-> NoMethod, data |-> NoPayload, requests |-> <<>>,
     reply |-> NoReply, decodes |-> <<>>, log |-> <<>>, outcome |-> Pending]

\* The calls a caller has in hand at a time.
CallIds == {1}

Init ==
    /\ config \in Configs
    /\ instance = createClient(config)
    /\ calls = [c \in CallIds |-> IdleCall]

\* A slip: the operation clears the headers of the instance it was handed once
\* it has posted.
CallAndReconfigure(c, m, data) ==
    /\ calls[c].pc = "idle"
    /\ calls' = [calls EXCEPT ![c] =
                    [IdleCall EXCEPT !.pc = "awaiting", !.method = m, !.data = data,
                                     !.requests = <<Post(instance, Facade(m).path, data)>>]]
    /\ instance' = [instance EXCEPT !.headers = {}]
    /\ UNCHANGED config

\* client.<group>.<method>(data): the facade delegates to the operation, which
\* posts the payload and awaits.
Call(c, m, data) ==
    /\ calls[c].pc = "idle"
    /\ calls' = [calls EXCEPT ![c] =
                    [IdleCall EXCEPT !.pc = "awaiting", !.method = m, !.data = data,
                                     !.requests = <<Post(instance, Facade(m).path, data)>>]]
    /\ UNCHANGED <<config, instance>>

\* The transport settles the POST of call c.
TransportReply(c, reply) ==
    /\ calls[c].pc = "awaiting"
    /\ calls' = [calls EXCEPT ![c].pc = "replied", ![c].reply = reply]
    /\ UNCHANGED <<config, instance>>

\* Settle, tabulated over the methods and the replies: the body of each
\* operation on each reply, worked out once.
SettleTable == [m \in Methods |-> [reply \in Replies |-> Settle(Facade(m), reply)]]

\* A slip: the response is kept in one place shared by the calls, so a body
\* that resumes reads the earliest reply not yet consumed, whosever it is.
ResumeShared(c) ==
    /\ calls[c].pc = "replied"
    /\ LET first == CHOOSE d \in DOMAIN calls :
                        /\ calls[d].pc = "replied"
                        /\ \A e \in DOMAIN calls : calls[e].pc = "replied" => d <= e
           r == SettleTable[calls[c].method][calls[first].reply]
       IN  calls' = [calls EXCEPT ![c].pc = "settled", ![c].outcome = r.outcome,
                                  ![c].log = r.log, ![c].decodes = r.decodes]
    /\ UNCHANGED <<config, instance>>

\* The body of call c resumes after its await and runs to its end.
Resume(c) ==
    /\ calls[c].pc = "replied"
    /\ LET r == SettleTable[calls[c].method][calls[c].reply]
       IN  calls' = [calls EXCEPT ![c].pc = "settled", ![c].outcome = r.outcome,
                                  ![c].log = r.log, ![c].decodes = r.decodes]
    /\ UNCHANGED <<config, instance>>

\* The caller takes the outcome of call c.
Return(c) ==
    /\ calls[c].pc = "settled"
    /\ calls' = [calls EXCEPT ![c] = IdleCall]
    /\ UNCHANGED <<config, instance>>

Next ==
    \/ \E c \in CallIds, m \in Methods, data \in Payloads : Call(c, m, data)
    \/ \E c \in CallIds, reply \in Replies : TransportReply(c, reply)
    \/ \E c \in CallIds : Resume(c)
    \/ \E c \in CallIds : Return(c)

Spec == Init /\ [][Next]_vars

(***************************************************************************)
(* Concurrent calls on one client: MaxConc calls in hand at a time, every  *)
(* interleaving of their dispatches, replies and resumptions.  The inputs  *)
(* are a selection of the ones above: an operation of each decoding kind,  *)
(* and a reply of each kind.                                               *)
(***************************************************************************)
MaxConc == 2

ConcIds == 1..MaxConc

ConcConfigs == {[endpoint |-> "https://evm.cronos.org",
                 apiKey |-> [given |-> TRUE, key |-> "secret"]]}

ConcMethods ==
    {<<"crc20", "getTotalSupply">>, <<"crc721", "getOwnerOf">>, <<"crc721", "getTokenUri">>}

ConcReplies ==
    {[kind |-> "response", data |-> [result |-> MillionAndHalf, error |-> NoErrorField],
      error |-> NoError],
     [kind |-> "response", data |-> [result |-> PlainText, error |-> NoErrorField],
      error |-> NoError],
     [kind |-> "response",
      data |-> [result |-> Undefined, error |-> RpcError("execution reverted")],
      error |-> NoError],
     [kind |-> "failure", data |-> [result |-> Undefined, error |-> NoErrorField],
      error |-> [name |-> "AxiosError", message |-> "connect ECONNREFUSED"]]}

InitConc ==
    /\ config \in ConcConfigs
    /\ instance = createClient(config)
    /\ calls = [c \in ConcIds |-> IdleCall]

NextConc ==
    \/ \E c \in ConcIds, m \in ConcMethods, data \in Payloads : Call(c, m, data)
    \/ \E c \in ConcIds, reply \in ConcReplies : TransportReply(c, reply)
    \/ \E c \in ConcIds : Resume(c)
    \/ \E c \in ConcIds : Return(c)

SpecConc == InitConc /\ [][NextConc]_vars

(***************************************************************************)
(* The claims.                                                             *)
(***************************************************************************)
Settled(c) == calls[c].pc = "settled"

\* The transport answered call c with a response carrying an envelope.
Responded(c) == calls[c].reply.kind = "response"

\* The envelope of call c carries a populated error field.
NodeError(c) == Responded(c) /\ calls[c].reply.data.error.t = "object"

NodeMessage(c) == calls[c].reply.data.error.message

\* "[<module>/<operation>]" of the method the caller called.
TagOf(m) == "[" \o m[1] \o "/" \o m[2] \o "]"

\* The message ends with the node's message, after the tag of some operation.
ContainsNodeMessage(message, nodeMessage) ==
    \E m \in Methods : message = TagOf(m) \o " error: " \o nodeMessage

\* C1: a call whose envelope carries a populated error field, with or without a
\* result, fails with a message that contains the node's message, and no decoder
\* is invoked during it.
C1_ErrorFieldFails ==
    \A c \in DOMAIN calls :
        Settled(c) /\ NodeError(c)
            => /\ calls[c].outcome.status = "rejected"
               /\ ContainsNodeMessage(calls[c].outcome.error.message, NodeMessage(c))
               /\ calls[c].decodes = <<>>

\* A call has failed on an envelope that carries both a result and an error.
C1_Witness ==
    \E c \in DOMAIN calls :
        /\ Settled(c) /\ NodeError(c)
        /\ calls[c].reply.data.result = OneEther
        /\ calls[c].outcome.status = "rejected"

\* C2: the failure of a call that received a node error has the message
\* "[m/op] error: <node message>", m/op the operation that was called.
C2_ErrorNamesOperation ==
    \A c \in DOMAIN calls :
        Settled(c) /\ NodeError(c)
            => calls[c].outcome.error.message
                   = TagOf(calls[c].method) \o " error: " \o NodeMessage(c)

\* C3: a call ends resolved with a string, or failed; never resolved with a value
\* that is not a string.
C3_StringOrFailure ==
    \A c \in DOMAIN calls :
        Settled(c)
            => \/ calls[c].outcome.status = "rejected"
               \/ calls[c].outcome.status = "resolved" /\ IsString(calls[c].outcome.value)

\* C4: a call that has been made has issued exactly one request, a POST to the
\* empty path with the caller's payload as its body, on every path and at every
\* step; a decoder has run only once the response has arrived.
C4_OnePostPerCall ==
    \A c \in DOMAIN calls :
        /\ calls[c].pc = "idle" => calls[c].requests = <<>>
        /\ calls[c].pc # "idle"
            => /\ Len(calls[c].requests) = 1
               /\ calls[c].requests[1].verb = "POST"
               /\ calls[c].requests[1].path = ""
               /\ calls[c].requests[1].body = calls[c].data
        /\ calls[c].decodes # <<>> => Settled(c) /\ Responded(c)

\* A call has decoded its response and settled, one request issued.
C4_Witness ==
    \E c \in DOMAIN calls :
        /\ Settled(c) /\ calls[c].decodes # <<>>
        /\ calls[c].outcome.status = "resolved"
        /\ Len(calls[c].requests) = 1

HasAuthorization(req) == \E h \in req.headers : h[1] = "Authorization"

\* C5 as stated: a request carries Authorization: Bearer <apiKey> if an apiKey,
\* any string, was given to createClient, and no Authorization header if none was.
C5_BearerForAnyKey ==
    \A c \in DOMAIN calls :
        \A i \in 1..Len(calls[c].requests) :
            IF config.apiKey.given
            THEN <<"Authorization", "Bearer " \o config.apiKey.key>>
                     \in calls[c].requests[i].headers
            ELSE ~HasAuthorization(calls[c].requests[i])

\* C5, amended: a request carries Authorization: Bearer <apiKey>, and no other
\* header, if a non-empty apiKey was given to createClient; it carries no
\* Authorization header if no apiKey or the empty string was given.
C5_BearerForNonEmptyKey ==
    \A c \in DOMAIN calls :
        \A i \in 1..Len(calls[c].requests) :
            IF config.apiKey.given /\ config.apiKey.key # ""
            THEN calls[c].requests[i].headers
                     = {<<"Authorization", "Bearer " \o config.apiKey.key>>}
            ELSE ~HasAuthorization(calls[c].requests[i])

\* A request has been sent by a client created with the key "secret".
C5_Witness ==
    \E c \in DOMAIN calls :
        /\ calls[c].requests # <<>>
        /\ config.apiKey = [given |-> TRUE, key |-> "secret"]
        /\ <<"Authorization", "Bearer secret">> \in calls[c].requests[1].headers

Result(c) == calls[c].reply.data.result

\* The envelope of call c carries no error: the success path.
Succeeded(c) == Settled(c) /\ Responded(c) /\ ~NodeError(c)

\* The decoder section 4 of the specification assigns to each method.
AssignedDecoder(m, v) ==
    CASE m \in {<<"crc20", "getBalance">>, <<"crc20", "getBalanceOf">>}
             -> formatTokenAmount(v, 18)
      [] m \in {<<"crc20", "getName">>, <<"crc20", "getSymbol">>,
                <<"crc721", "getTokenUri">>}
             -> decodeHexString(v)
      [] m = <<"crc20", "getTotalSupply">> -> formatTokenAmount(v, 6)
      [] m = <<"crc721", "getBalanceOf">> -> formatTokenAmount(v, 0)

\* C6: on the success path a method other than crc721.getOwnerOf returns the
\* output of its assigned decoder, applied once to response.data.result, and it
\* resolves only with that; its request went through the transport the client
\* captured.
C6_AssignedDecoder ==
    \A c \in DOMAIN calls :
        Succeeded(c) /\ calls[c].method # <<"crc721", "getOwnerOf">>
            => LET d == AssignedDecoder(calls[c].method, Result(c))
               IN  /\ d.ok => calls[c].outcome = Resolved(d.value)
                   /\ calls[c].outcome.status = "resolved" => d.ok
                   /\ Len(calls[c].decodes) = 1
                   /\ calls[c].requests[1].baseURL = instance.baseURL
                   /\ calls[c].requests[1].headers = instance.headers

\* crc20.getTotalSupply has returned "1.5" for the result 0x16e360.
C6_Witness ==
    \E c \in DOMAIN calls :
        /\ Succeeded(c) /\ calls[c].method = <<"crc20", "getTotalSupply">>
        /\ Result(c) = MillionAndHalf
        /\ calls[c].outcome = Resolved(Str(<<"1", ".", "5">>))

\* C7: on an envelope without an error, crc721.getOwnerOf returns the envelope's
\* result as it is, and invokes no decoder.
C7_OwnerPassedThrough ==
    \A c \in DOMAIN calls :
        Succeeded(c) /\ calls[c].method = <<"crc721", "getOwnerOf">>
            => calls[c].outcome = Resolved(Result(c)) /\ calls[c].decodes = <<>>

\* crc721.getOwnerOf has returned the address it was sent.
C7_Witness ==
    \E c \in DOMAIN calls :
        /\ Succeeded(c) /\ calls[c].method = <<"crc721", "getOwnerOf">>
        /\ Result(c) = Address
        /\ calls[c].outcome = Resolved(Address)

\* The decoder of call c threw on the result.
DecoderThrew(c) == Succeeded(c) /\ ~Decode(Facade(calls[c].method).decoder, Result(c)).ok

\* C8: a call whose POST failed fails with the very failure the transport raised,
\* no decoder invoked; a call whose decoder threw fails with the very failure the
\* decoder raised.
C8_FailurePropagatedUnchanged ==
    \A c \in DOMAIN calls :
        /\ Settled(c) /\ calls[c].reply.kind = "failure"
            => calls[c].outcome = Rejected(calls[c].reply.error) /\ calls[c].decodes = <<>>
        /\ DecoderThrew(c)
            => calls[c].outcome
                   = Rejected(Decode(Facade(calls[c].method).decoder, Result(c)).error)

\* A call has failed with the transport's connection failure.
C8_Witness ==
    \E c \in DOMAIN calls :
        /\ Settled(c) /\ calls[c].reply.kind = "failure"
        /\ calls[c].outcome.status = "rejected"
        /\ calls[c].outcome.error.message = "connect ECONNREFUSED"

\* C9: a failed call has logged at least one line, every line a call logs is
\* tagged "[<module>/<operation>] error:" with the module and operation of that
\* call, and a successful call logs nothing.
C9_LogsTaggedWithOperation ==
    \A c \in DOMAIN calls :
        /\ Settled(c) /\ calls[c].outcome.status = "rejected" => Len(calls[c].log) >= 1
        /\ \A i \in 1..Len(calls[c].log) :
               calls[c].log[i].tag = TagOf(calls[c].method) \o " error:"
        /\ Settled(c) /\ calls[c].outcome.status = "resolved" => calls[c].log = <<>>

\* v is "0x" and one or more hexadecimal digits.
IsHexInteger(v) ==
    /\ IsString(v) /\ Len(v.s) >= 3
    /\ v.s[1] = "0" /\ v.s[2] = "x"
    /\ IsHexPayload(SubSeq(v.s, 3, Len(v.s)))

\* The place of the "." in chars, 0 when there is none.
DotAt(chars) ==
    IF \E i \in 1..Len(chars) : chars[i] = "."
    THEN CHOOSE i \in 1..Len(chars) : chars[i] = "." ELSE 0

IntPart(chars) == IF DotAt(chars) = 0 THEN chars ELSE SubSeq(chars, 1, DotAt(chars) - 1)

FracPart(chars) ==
    IF DotAt(chars) = 0 THEN <<>> ELSE SubSeq(chars, DotAt(chars) + 1, Len(chars))

\* chars is a decimal numeral in its shortest form: no leading zero but "0"
\* itself, and after a "." a fraction that does not end in zero.
IsDecimalNumeral(chars) ==
    LET int == IntPart(chars)
        frac == FracPart(chars)
    IN  /\ int # <<>>
        /\ \A i \in 1..Len(int) : IsDecChar(int[i])
        /\ Len(int) > 1 => int[1] # "0"
        /\ \A i \in 1..Len(frac) : IsDecChar(frac[i])
        /\ DotAt(chars) # 0 => frac # <<>> /\ frac[Len(frac)] # "0"

\* The numeral chars is exactly h / 10^d: it has at most d fraction digits, and
\* with its point moved d places right it is the natural h, compared digit by
\* digit in base 16.
IsQuotient(chars, h, d) ==
    /\ IsDecimalNumeral(chars)
    /\ Len(FracPart(chars)) <= d
    /\ LET digits == IntPart(chars) \o FracPart(chars)
           shifted == [i \in 1..Len(digits) |-> DecVal(digits[i])]
                          \o Zeros(d - Len(FracPart(chars)))
       IN  Convert(shifted, 10, 16)
               = StripTrailingZeros(Reverse(HexDigits(SubSeq(h.s, 3, Len(h.s)))))

\* C10: for a hexadecimal integer h as the result, crc20.getTotalSupply returns
\* the decimal numeral of h / 10^6 in full, and crc721.getBalanceOf the decimal
\* numeral of h; both return "0" for "0x0".
C10_ScaledInFull ==
    \A c \in DOMAIN calls :
        Succeeded(c) /\ IsHexInteger(Result(c))
            => /\ calls[c].method = <<"crc20", "getTotalSupply">>
                    => /\ calls[c].outcome.status = "resolved"
                       /\ IsString(calls[c].outcome.value)
                       /\ IsQuotient(calls[c].outcome.value.s, Result(c), 6)
               /\ calls[c].method = <<"crc721", "getBalanceOf">>
                    => /\ calls[c].outcome.status = "resolved"
                       /\ IsString(calls[c].outcome.value)
                       /\ IsQuotient(calls[c].outcome.value.s, Result(c), 0)
               /\ (/\ calls[c].method \in {<<"crc20", "getTotalSupply">>,
                                           <<"crc721", "getBalanceOf">>}
                   /\ Result(c) = Hex(<<"0">>))
                    => calls[c].outcome.value.s = <<"0">>

\* crc721.getBalanceOf has returned the 22 digits of a result beyond 64 bits.
C10_Witness ==
    \E c \in DOMAIN calls :
        /\ Succeeded(c) /\ calls[c].method = <<"crc721", "getBalanceOf">>
        /\ Result(c) = ThousandEther
        /\ calls[c].outcome.status = "resolved"
        /\ Len(calls[c].outcome.value.s) = 22

\* C11: whatever the other calls on the client are doing, a settled call has
\* the outcome, the log and the request of that call run alone on its own
\* payload and reply, so two calls of one method with one reply agree; and a
\* call's next step is never held back by another call: an idle slot can be
\* called, a dispatched call can be replied to, a replied call can resume.
C11_CallsIndependent ==
    \A c \in DOMAIN calls :
        /\ Settled(c)
            => /\ calls[c].outcome
                      = Settle(Facade(calls[c].method), calls[c].reply).outcome
               /\ calls[c].log = Settle(Facade(calls[c].method), calls[c].reply).log
               /\ calls[c].requests[1].body = calls[c].data
               /\ \A d \in DOMAIN calls :
                      /\ Settled(d)
                      /\ calls[d].method = calls[c].method
                      /\ calls[d].reply = calls[c].reply
                      => calls[d].outcome = calls[c].outcome
        /\ calls[c].pc = "idle"
            => \A m \in ConcMethods, data \in Payloads : ENABLED Call(c, m, data)
        /\ calls[c].pc = "awaiting"
            => \A reply \in ConcReplies : ENABLED TransportReply(c, reply)
        /\ calls[c].pc = "replied" => ENABLED Resume(c)
        /\ calls[c].pc = "settled" => ENABLED Return(c)

\* Two calls of one method are in hand, their replies differ, and the second has
\* settled with its own outcome while the first has its reply and has not
\* resumed.
C11_Witness ==
    /\ calls[1].pc = "replied" /\ calls[2].pc = "settled"
    /\ calls[1].method = <<"crc20", "getTotalSupply">>
    /\ calls[2].method = <<"crc20", "getTotalSupply">>
    /\ calls[1].reply.kind = "failure"
    /\ calls[2].outcome = Resolved(Str(<<"1", ".", "5">>))

\* C12: createClient issues no request, and no step of any call, successful or
\* failed, changes the configuration or the instance the client was created
\* with; a request that is issued carries the base URL and the headers of that
\* instance.
C12_TransportFixed ==
    /\ \A c \in DOMAIN calls : calls[c].requests = <<>>
    /\ instance.baseURL = config.endpoint
    /\ [][/\ instance' = instance
          /\ config' = config
          /\ \A c \in DOMAIN calls :
                 calls[c].pc = "idle" /\ calls'[c].pc = "awaiting"
                     => /\ calls'[c].requests[1].baseURL = instance.baseURL
                        /\ calls'[c].requests[1].headers = instance.headers]_vars

\* A call has failed on a client created with the key "secret", and the instance
\* still has the endpoint and the header createClient gave it.
C12_Witness ==
    \E c \in DOMAIN calls :
        /\ Settled(c) /\ calls[c].outcome.status = "rejected"
        /\ config.apiKey = [given |-> TRUE, key |-> "secret"]
        /\ instance.baseURL = config.endpoint
        /\ instance.headers = {<<"Authorization", "Bearer secret">>}

\* C13: a call logs nothing before it settles; settled on a node error it has
\* logged exactly two entries, the node's message at the error check and then the
\* thrown Error at the catch boundary; on a transport failure or a decoder
\* failure exactly one, the caught failure; on success none.
C13_LogEntriesByFailureKind ==
    \A c \in DOMAIN calls :
        /\ ~Settled(c) => calls[c].log = <<>>
        /\ Settled(c) /\ NodeError(c)
            => /\ Len(calls[c].log) = 2
               /\ calls[c].log[1].text = NodeMessage(c)
               /\ calls[c].log[1].error = NoError
               /\ calls[c].log[2].error = calls[c].outcome.error
               /\ calls[c].log[2].error.name = "Error"
        /\ Settled(c) /\ calls[c].reply.kind = "failure"
            => /\ Len(calls[c].log) = 1
               /\ calls[c].log[1].error = calls[c].reply.error
        /\ DecoderThrew(c)
            => /\ Len(calls[c].log) = 1
               /\ calls[c].log[1].error = calls[c].outcome.error
               /\ calls[c].outcome.status = "rejected"
        /\ Settled(c) /\ calls[c].outcome.status = "resolved" => calls[c].log = <<>>

\* crc721.getOwnerOf has failed on a node error with two entries logged.
C13_Witness ==
    \E c \in DOMAIN calls :
        /\ Settled(c) /\ NodeError(c)
        /\ calls[c].method = <<"crc721", "getOwnerOf">>
        /\ Len(calls[c].log) = 2

====
